---- MODULE Spec2Model ----
(***************************************************************************)
(* ForkFS sandbox lifecycle (src/src/sessions.rs, src/src/run.rs).         *)
(*                                                                         *)
(* The state is the part of the kernel and of the disk that the code       *)
(* reads and writes: the directories under <cache_root>/forkfs, the mounts *)
(* stacked at <dir>/merged and at merged/{proc,dev,run,tmp}, the files of  *)
(* the upper layers and of the host.  Every forkfs invocation is a         *)
(* process that walks through the system calls of its handler, one call    *)
(* per step.  Spec runs one invocation at a time; SpecConc interleaves     *)
(* the calls of two invocations against one sandbox, SpecIndep those of    *)
(* two invocations against different sandboxes; SpecGate runs the          *)
(* privilege gate for every kind of credentials.                           *)
(***************************************************************************)
EXTENDS Integers, Sequences, FiniteSets, TLC

\* ------------------------------------------------------------------ bounds
\* environment failures (a system call failing for a reason outside the
\* modelled state: ENOSPC, EACCES, EBUSY by a foreign holder, ...) per run
MaxFail == 1
\* longest explicit name list given to `sessions stop|delete`
MaxList == 1
\* longest name list walked with the shared path buffer
MaxNames == 2

\* ------------------------------------------------------------- input sets
Procs == {"p1", "p2"}
Names == {"s1", "s2"}
\* absolute paths a sandboxed command writes, as <<top-level dir, file>>
Paths == {<<"etc", "f">>, <<"tmp", "f">>}

\* sessions.rs:66  for path in ["diff", "work", "merged"]
LayerDirs == <<"diff", "work", "merged">>
\* the bind list with /tmp left out
Binds_without_tmp == <<"proc", "dev", "run">>

\* the bind list with /tmp handled first
Binds_tmp_first == <<"tmp", "proc", "dev", "run">>

\* sessions.rs:110  [(PROC, "proc"), (DEV, "dev"), (RUN, "run"), (TMP, "tmp")]
Binds == <<"proc", "dev", "run", "tmp">>
BindSet == {Binds[i] : i \in 1..Len(Binds)}
LayerSet == {LayerDirs[i] : i \in 1..Len(LayerDirs)}

\* the gate asking for three of the four
RequiredCaps_without_chroot == {"CHOWN", "DAC_OVERRIDE", "SYS_ADMIN"}

\* run.rs:84-87  the capabilities the gate asks for
RequiredCaps == {"CHOWN", "DAC_OVERRIDE", "SYS_CHROOT", "SYS_ADMIN"}
AllCaps == RequiredCaps \cup {"MKNOD"}
\* the effective capability sets the gate is tried with
CapSets == {{}, RequiredCaps, AllCaps} \cup {AllCaps \ {c} : c \in RequiredCaps}

VARIABLES
    rootExists, \* <cache_root>/forkfs exists
    sdir,       \* sdir[n]: the sandbox directory <cache_root>/forkfs/n exists
    sub,        \* sub[n]: which of diff, work, merged exist in it
    mounts,     \* mounts[n]: the overlay mounts stacked at n/merged, bottom
                \* first; each is the stacks of binds mounted on its
                \* proc, dev, run, tmp, holding each bind's propagation
    diff,       \* diff[n]: the files under n/diff (the upper layer)
    host,       \* host[path]: who wrote the host's file at path
    proc,       \* proc[p]: the invocation process p is executing
    nfail       \* environment failures so far

fsvars == <<rootExists, sdir, sub, mounts, diff, host>>
vars == <<rootExists, sdir, sub, mounts, diff, host, proc, nfail>>

\* --------------------------------------------------------- kernel helpers
NoBinds == [b \in BindSet |-> <<>>]

IsMounted(n) == mounts[n] # <<>>
TopLayer(n) == mounts[n][Len(mounts[n])]
BindsOf(layer) == {b \in BindSet : layer[b] # <<>>}

\* Glossary: active iff merged/ is a distinct mount; inactive iff the
\* sandbox directory exists but merged/ is not a mount; else absent.
StateOf(n) ==
    IF IsMounted(n) THEN "active"
    ELSE IF sdir[n] THEN "inactive"
    ELSE "absent"

\* what an invocation remembers about its target when it starts on it
Snap(n) ==
    [st |-> StateOf(n),
     dirs |-> sub[n],
     binds |-> IF IsMounted(n) THEN BindsOf(TopLayer(n)) ELSE {}]

NoSnap == [st |-> "absent", dirs |-> {}, binds |-> {}]

Idle ==
    [pc |-> "idle", kind |-> "none", all |-> FALSE, cur |-> "-",
     todo |-> <<>>, idx |-> 0, seen |-> "-", res |-> "none",
     root |-> <<>>, written |-> {}, printed |-> <<>>,
     names |-> {}, after |-> {},
     started |-> NoSnap, calls |-> {}, envfail |-> FALSE, cred |-> <<>>,
     prev |-> <<>>, mnt |-> "-", onhost |-> FALSE, cwd |-> <<>>]

Init ==
    /\ rootExists = FALSE
    /\ sdir = [n \in Names |-> FALSE]
    /\ sub = [n \in Names |-> {}]
    /\ mounts = [n \in Names |-> <<>>]
    /\ diff = [n \in Names |-> {}]
    /\ host = [q \in Paths |-> IF q[1] = "etc" THEN "orig" ELSE "none"]
    /\ proc = [p \in Procs |-> Idle]
    /\ nfail = 0

\* ------------------------------------------------------- process helpers
\* read_dir yielding some of the entries only
Orders_partial(S) ==
    {s \in UNION {[1..k -> S] : k \in 0..Cardinality(Names)} :
        \A i, j \in 1..Len(s) : i # j => s[i] # s[j]}

\* the orders in which read_dir can yield the entries S
Orders(S) ==
    {s \in UNION {[1..k -> S] : k \in 0..Cardinality(Names)} :
        /\ Len(s) = Cardinality(S)
        /\ \A i, j \in 1..Len(s) : i # j => s[i] # s[j]}

NameLists == UNION {[1..k -> Names] : k \in 1..MaxList}

\* the invocation returns Err(kind)
Returned(r, kind) ==
    [r EXCEPT !.pc = "done", !.res = kind, !.idx = 0, !.seen = "-",
              !.todo = <<>>, !.root = <<>>]

\* a failing closure skipped, the loop going on with the next sandbox
Failed_skipped(r, kind) ==
    IF r.kind \in {"stop", "delete"} /\ r.cur \in Names /\ r.todo # <<>>
    THEN [r EXCEPT !.pc = "probe_m", !.cur = Head(r.todo),
                   !.todo = Tail(r.todo), !.idx = 0, !.seen = "-",
                   !.calls = {}]
    ELSE Returned(r, kind)

Failed(r, kind) == Returned(r, kind)

\* sessions.rs:160,174-177  the closure returned Ok for the current
\* sandbox: the loop takes the next one, or the operation returns Ok(())
NextSession(r) ==
    IF r.todo = <<>>
    THEN Returned(r, "ok")
    ELSE [r EXCEPT !.pc = "probe_m", !.cur = Head(r.todo),
                   !.todo = Tail(r.todo), !.idx = 0, !.seen = "-",
                   !.calls = {}]

\* a system call fails for a reason outside the modelled state
EnvFail(p, kind) ==
    /\ nfail < MaxFail
    /\ nfail' = nfail + 1
    /\ proc' = [proc EXCEPT ![p] = [Failed(proc[p], kind) EXCEPT !.envfail = TRUE]]

Become(p, r) == proc' = [proc EXCEPT ![p] = r]

\* the record of a process that starts an invocation; it remembers the
\* names that the invocation before it deleted
Fresh(p) ==
    [Idle EXCEPT !.after =
        IF proc[p].pc = "done" /\ proc[p].kind = "delete" /\ proc[p].res = "ok"
        THEN proc[p].names ELSE {}]

Range(s) == {s[i] : i \in 1..Len(s)}

\* a process holds the mount it chroot-ed into until it exits
HeldBy(n, k) ==
    \E p \in Procs : proc[p].pc \in {"chdir", "exec", "cmd"} /\ proc[p].root = <<n, k>>

\* --------------------------------------------------------- privilege gate
\* run.rs:65-100  validate_permissions
validate_permissions(uidIsRoot, setuid, capsRead, caps) ==
    IF uidIsRoot THEN "ok"
    ELSE IF setuid = "ok" THEN "ok"
    ELSE IF setuid # "EPERM" THEN "Io"
    ELSE IF ~capsRead THEN "Io"
    ELSE IF RequiredCaps \subseteq caps THEN "ok"
    ELSE "SetupRequired"

\* ------------------------------------------------------------ invocations
\* run.rs:20-25  run(session, command, stay_root)
run(p, n) ==
    /\ proc[p].pc \in {"idle", "done"}
    /\ Become(p, [Fresh(p) EXCEPT !.pc = "gate", !.kind = "run", !.cur = n,
                                 !.names = {n}, !.started = Snap(n)])
    /\ UNCHANGED <<fsvars, nfail>>

\* the credentials the gate is tried with: the real UID, the result of
\* set_thread_uid(ROOT), whether capabilities(None) can be read, and the
\* effective set
GateInputs ==
    [uidIsRoot : BOOLEAN, setuid : {"ok", "EPERM", "EINVAL"},
     capsRead : BOOLEAN, caps : CapSets]

\* what the gate answers for the credentials c
GateOutcome(c) == validate_permissions(c.uidIsRoot, c.setuid, c.capsRead, c.caps)

\* what the gate can answer
GateOutcomes == {GateOutcome(c) : c \in GateInputs}

\* run.rs:21-22  validate_permissions(uid)?  for the credentials of the
\* process when they are known, for any credentials otherwise
run_validate_permissions(p) ==
    /\ proc[p].pc = "gate"
    /\ \E g \in (IF proc[p].cred = <<>> THEN GateOutcomes
                 ELSE {GateOutcome(proc[p].cred)}) :
          IF g = "ok"
          THEN Become(p, [proc[p] EXCEPT !.pc = "probe_m"])
          ELSE Become(p, [Failed(proc[p], g) EXCEPT !.envfail = TRUE])
    /\ UNCHANGED <<fsvars, nfail>>

\* sessions.rs:50-52, 166-181  stop(Op::List(names))
stop(p, names) ==
    /\ proc[p].pc \in {"idle", "done"}
    /\ Become(p, NextSession([Fresh(p) EXCEPT !.kind = "stop", !.todo = names,
                                             !.names = Range(names)]))
    /\ UNCHANGED <<fsvars, nfail>>

\* sessions.rs:54-59, 166-181  delete(Op::List(names))
delete(p, names) ==
    /\ proc[p].pc \in {"idle", "done"}
    /\ Become(p, NextSession([Fresh(p) EXCEPT !.kind = "delete", !.todo = names,
                                             !.names = Range(names)]))
    /\ UNCHANGED <<fsvars, nfail>>

\* sessions.rs:171  stop(Op::All), delete(Op::All)
stop_all(p) ==
    /\ proc[p].pc \in {"idle", "done"}
    /\ Become(p, [Fresh(p) EXCEPT !.pc = "readdir", !.kind = "stop", !.all = TRUE])
    /\ UNCHANGED <<fsvars, nfail>>

delete_all(p) ==
    /\ proc[p].pc \in {"idle", "done"}
    /\ Become(p, [Fresh(p) EXCEPT !.pc = "readdir", !.kind = "delete", !.all = TRUE])
    /\ UNCHANGED <<fsvars, nfail>>

\* what a list remembers of the list that ran just before it
PrevList(p) ==
    IF proc[p].pc = "done" /\ proc[p].kind = "list"
    THEN [res |-> proc[p].res, out |-> Range(proc[p].printed),
          envfail |-> proc[p].envfail]
    ELSE <<>>

\* sessions.rs:25-28  list()
list(p) ==
    /\ proc[p].pc \in {"idle", "done"}
    /\ Become(p, [Fresh(p) EXCEPT !.pc = "readdir", !.kind = "list", !.all = TRUE,
                                 !.prev = PrevList(p)])
    /\ UNCHANGED <<fsvars, nfail>>

\* read_dir without the arm for a cache root that is not found
iter_all_sessions_root_required(p) ==
    /\ proc[p].pc = "readdir"
    /\ \/ /\ ~rootExists
          /\ Become(p, Failed(proc[p], "Io"))
          /\ UNCHANGED nfail
       \/ /\ rootExists
          /\ \E order \in Orders({n \in Names : sdir[n]}) :
                Become(p, NextSession([proc[p] EXCEPT !.todo = order,
                                                      !.names = Range(order)]))
          /\ UNCHANGED nfail
       \/ /\ rootExists
          /\ EnvFail(p, "Io")
    /\ UNCHANGED fsvars

\* sessions.rs:151-155  fs::read_dir(&sessions_dir)
iter_all_sessions(p) ==
    /\ proc[p].pc = "readdir"
    /\ \/ /\ ~rootExists
          /\ Become(p, Returned(proc[p], "ok"))
          /\ UNCHANGED nfail
       \/ /\ rootExists
          /\ \E order \in Orders({n \in Names : sdir[n]}) :
                Become(p, NextSession([proc[p] EXCEPT !.todo = order,
                                                      !.names = Range(order)]))
          /\ UNCHANGED nfail
       \/ /\ rootExists
          /\ EnvFail(p, "Io")
    /\ UNCHANGED fsvars

\* ---------------------------------------------------------- activity probe
\* sessions.rs:62,125 and 30  the mode each caller passes as must_exist
must_exist(kind) == kind # "run"

\* statx answering with the mount of any sandbox
statx_merged_shared(n) ==
    IF "merged" \notin sub[n] THEN "NotFound"
    ELSE IF \E m \in Names : IsMounted(m) THEN "mounted"
    ELSE "plain"

\* sessions.rs:186  what statx(merged) finds
statx_merged(n) ==
    IF "merged" \notin sub[n] THEN "NotFound"
    ELSE IF IsMounted(n) THEN "mounted"
    ELSE "plain"

\* the comparison the wrong way round
mount_ids_equal(seen) == seen # "mounted"

\* sessions.rs:201  Ok(parent_mount != mount): the parent is on the host's
\* mount, merged has another mount-id iff something is mounted on it
mount_ids_differ(seen) == seen = "mounted"

\* the assembly started without creating the layer directories
after_probe_run_mounts_first(r, active) ==
    IF active THEN [r EXCEPT !.pc = "chroot"]
    ELSE [r EXCEPT !.pc = "mount", !.idx = 0]

\* sessions.rs:62-66  maybe_create_session after the probe
after_probe_run(r, active) ==
    IF active THEN [r EXCEPT !.pc = "chroot"]
    ELSE [r EXCEPT !.pc = "mkdir", !.idx = 1]

\* delete returns after stop_session, without delete_session
after_stop_session_never_delete(r) == NextSession(r)

\* stop runs the closure of delete
after_stop_session_always_delete(r) == [r EXCEPT !.pc = "rm"]

\* sessions.rs:50-59  stop_session returned Ok: the closure of delete goes
\* on to delete_session, the one of stop is done with this sandbox
after_stop_session(r) ==
    IF r.kind = "delete" THEN [r EXCEPT !.pc = "rm"]
    ELSE NextSession(r)

\* stop_session without the early return for an inactive sandbox
after_probe_stop_always_unmount(r, active) ==
    [r EXCEPT !.pc = "umount", !.idx = 1]

\* stop_session going to the unmount of merged/ without the bind loop
after_probe_stop_overlay_first(r, active) ==
    IF active THEN [r EXCEPT !.pc = "umount_m", !.idx = 0]
    ELSE after_stop_session(r)

\* sessions.rs:125-129  stop_session after the probe
after_probe_stop(r, active) ==
    IF active THEN [r EXCEPT !.pc = "umount", !.idx = 1]
    ELSE after_stop_session(r)

\* sessions.rs:30-46  list prints the entry
after_probe_list(r, active) ==
    NextSession([r EXCEPT !.printed = Append(@, <<r.cur, active>>)])

after_probe(r, active) ==
    IF r.kind = "run" THEN after_probe_run(r, active)
    ELSE IF r.kind = "list" THEN after_probe_list(r, active)
    ELSE after_probe_stop(r, active)

\* sessions.rs:184-195  is_active_session: statx of <dir>/merged
is_active_session_merged(p) ==
    LET r == [proc[p] EXCEPT !.started = Snap(proc[p].cur)]
        n == proc[p].cur
        found == statx_merged(n)
    IN
    /\ proc[p].pc = "probe_m"
    /\ \/ /\ found = "NotFound"
          /\ IF must_exist(r.kind)
             THEN Become(p, Failed(r, "SessionNotFound"))
             ELSE Become(p, after_probe(r, FALSE))
          /\ UNCHANGED nfail
       \/ /\ found # "NotFound"
          /\ Become(p, [r EXCEPT !.pc = "probe_p", !.seen = found])
          /\ UNCHANGED nfail
       \/ /\ found # "NotFound"
          /\ nfail < MaxFail
          /\ nfail' = nfail + 1
          /\ Become(p, [Failed(r, "SessionNotFound") EXCEPT !.envfail = TRUE])
    /\ UNCHANGED fsvars

\* sessions.rs:197-201  is_active_session: statx of <dir>, the comparison
is_active_session_parent(p) ==
    LET r == proc[p]
        n == proc[p].cur
    IN
    /\ proc[p].pc = "probe_p"
    /\ \/ /\ ~sdir[n]
          /\ Become(p, Failed(r, "Io"))
          /\ UNCHANGED nfail
       \/ /\ sdir[n]
          /\ Become(p, after_probe(r, mount_ids_differ(r.seen)))
          /\ UNCHANGED nfail
       \/ /\ sdir[n]
          /\ EnvFail(p, "Io")
    /\ UNCHANGED fsvars

\* ----------------------------------------------------------------- create
\* the layer directories made anew, emptying diff/
maybe_create_session_fresh(p) ==
    LET r == proc[p]
        n == proc[p].cur
        r1 == [r EXCEPT !.calls = @ \cup {"mkdir"}]
    IN
    /\ proc[p].pc = "mkdir"
    /\ \/ /\ rootExists' = TRUE
          /\ sdir' = [sdir EXCEPT ![n] = TRUE]
          /\ sub' = [sub EXCEPT ![n] = @ \cup {LayerDirs[r.idx]}]
          /\ diff' = [diff EXCEPT ![n] = {}]
          /\ IF r.idx < Len(LayerDirs)
             THEN Become(p, [r1 EXCEPT !.idx = @ + 1])
             ELSE Become(p, [r1 EXCEPT !.pc = "mount", !.idx = 0])
          /\ UNCHANGED <<mounts, host, nfail>>
       \/ /\ nfail < MaxFail
          /\ nfail' = nfail + 1
          /\ Become(p, [Failed(r1, "Io") EXCEPT !.envfail = TRUE])
          /\ UNCHANGED fsvars

\* sessions.rs:66-70  fs::create_dir_all(<dir>/<path>) for the idx-th path
maybe_create_session(p) ==
    LET r == proc[p]
        n == proc[p].cur
        r1 == [r EXCEPT !.calls = @ \cup {"mkdir"}]
    IN
    /\ proc[p].pc = "mkdir"
    /\ \/ /\ rootExists' = TRUE
          /\ sdir' = [sdir EXCEPT ![n] = TRUE]
          /\ sub' = [sub EXCEPT ![n] = @ \cup {LayerDirs[r.idx]}]
          /\ IF r.idx < Len(LayerDirs)
             THEN Become(p, [r1 EXCEPT !.idx = @ + 1])
             ELSE Become(p, [r1 EXCEPT !.pc = "mount", !.idx = 0])
          /\ UNCHANGED <<mounts, diff, host, nfail>>
       \/ /\ nfail < MaxFail
          /\ nfail' = nfail + 1
          /\ Become(p, [Failed(r1, "Io") EXCEPT !.envfail = TRUE])
          /\ UNCHANGED fsvars

\* --------------------------------------------------------------- assembly
\* sessions.rs:100-108  mount("overlay", merged, "overlay", lowerdir=/,
\* upperdir=<dir>/diff, workdir=<dir>/work).  The new mount goes on top of
\* whatever is mounted at merged.  When an overlay with the same upperdir is
\* already mounted the kernel either warns and mounts (index=off) or
\* returns EBUSY (index=on).
start_session_mount(p) ==
    LET r == proc[p]
        n == proc[p].cur
        r1 == [r EXCEPT !.calls = @ \cup {"mount"}]
    IN
    /\ proc[p].pc = "mount"
    /\ \/ /\ LayerSet \subseteq sub[n]
          /\ mounts' = [mounts EXCEPT ![n] = Append(@, NoBinds)]
          /\ Become(p, [r1 EXCEPT !.pc = "bind", !.idx = 1])
          /\ UNCHANGED <<rootExists, sdir, sub, diff, host, nfail>>
       \/ /\ ~(LayerSet \subseteq sub[n]) \/ IsMounted(n)
          /\ Become(p, Failed(r1, "Io"))
          /\ UNCHANGED <<fsvars, nfail>>
       \/ /\ LayerSet \subseteq sub[n]
          /\ nfail < MaxFail
          /\ nfail' = nfail + 1
          /\ Become(p, [Failed(r1, "Io") EXCEPT !.envfail = TRUE])
          /\ UNCHANGED fsvars

\* the mount table after mounting x on merged/<b> of the topmost overlay
PushBind(ms, b, x) ==
    [ms EXCEPT ![Len(ms)] = [@ EXCEPT ![b] = Append(@, x)]]

\* the mount table after unmounting the topmost mount at merged/<b>
PopBind(ms, b) ==
    [ms EXCEPT ![Len(ms)] = [@ EXCEPT ![b] = SubSeq(@, 1, Len(@) - 1)]]

\* change_mount leaving the propagation as it was
SetProp_unchanged(ms, b, x) == ms

\* the mount table after changing the propagation of the mount at merged/<b>
SetProp(ms, b, x) ==
    [ms EXCEPT ![Len(ms)] = [@ EXCEPT ![b] = [@ EXCEPT ![Len(@)] = x]]]

\* sessions.rs:111-113  recursive_bind_mount(/<b>, merged/<b>)
start_session_bind(p) ==
    LET r == proc[p]
        n == proc[p].cur
        b == Binds[proc[p].idx]
        r1 == [r EXCEPT !.calls = @ \cup {"bind"}]
    IN
    /\ proc[p].pc = "bind"
    /\ \/ /\ IsMounted(n)
          /\ mounts' = [mounts EXCEPT ![n] = PushBind(@, b, "inherited")]
          /\ Become(p, [r1 EXCEPT !.pc = "prop"])
          /\ UNCHANGED <<rootExists, sdir, sub, diff, host, nfail>>
       \/ /\ ~IsMounted(n)
          /\ Become(p, Failed(r1, "Io"))
          /\ UNCHANGED <<fsvars, nfail>>
       \/ /\ IsMounted(n)
          /\ nfail < MaxFail
          /\ nfail' = nfail + 1
          /\ Become(p, [Failed(r1, "Io") EXCEPT !.envfail = TRUE])
          /\ UNCHANGED fsvars

\* sessions.rs:114-119  change_mount(merged/<b>, SLAVE | REC); the loop
\* goes to the next bind, and start_session returns Ok after the last
start_session_change_mount(p) ==
    LET r == proc[p]
        n == proc[p].cur
        b == Binds[proc[p].idx]
        r1 == [r EXCEPT !.calls = @ \cup {"prop"}]
        ok == IsMounted(n) /\ TopLayer(n)[b] # <<>>
    IN
    /\ proc[p].pc = "prop"
    /\ \/ /\ ok
          /\ mounts' = [mounts EXCEPT ![n] = SetProp(@, b, "slave")]
          /\ IF r.idx < Len(Binds)
             THEN Become(p, [r1 EXCEPT !.pc = "bind", !.idx = @ + 1])
             ELSE Become(p, [r1 EXCEPT !.pc = "chroot", !.idx = 0])
          /\ UNCHANGED <<rootExists, sdir, sub, diff, host, nfail>>
       \/ /\ ~ok
          /\ Become(p, Failed(r1, "Io"))
          /\ UNCHANGED <<fsvars, nfail>>
       \/ /\ ok
          /\ nfail < MaxFail
          /\ nfail' = nfail + 1
          /\ Become(p, [Failed(r1, "Io") EXCEPT !.envfail = TRUE])
          /\ UNCHANGED fsvars

\* ---------------------------------------------------------- entry and exec
\* run.rs:37  current_dir(): the directory the invocation was made from
current_dir == <<"etc">>

\* run.rs:29-30, 37-39  current_dir(), chroot(<dir>/merged): the root of the
\* process becomes the topmost mount at merged (the bare directory if
\* nothing is mounted there); the working directory is still the one it was,
\* outside the new root
enter_session_chroot(p) ==
    LET r == proc[p]
        n == proc[p].cur
        r1 == [r EXCEPT !.calls = @ \cup {"chroot"}]
    IN
    /\ proc[p].pc = "chroot"
    /\ \/ /\ "merged" \in sub[n]
          /\ Become(p, [r1 EXCEPT !.pc = "chdir", !.root = <<n, Len(mounts[n])>>,
                                   !.cwd = [path |-> current_dir, root |-> <<>>]])
          /\ UNCHANGED nfail
       \/ /\ "merged" \notin sub[n]
          /\ Become(p, Failed(r1, "Io"))
          /\ UNCHANGED nfail
       \/ /\ "merged" \in sub[n]
          /\ EnvFail(p, "Io")
    /\ UNCHANGED fsvars

\* the working directory set to the new root
set_current_dir_to_root(r) ==
    [r EXCEPT !.pc = "exec", !.cwd = [path |-> <<>>, root |-> r.root]]

\* run.rs:40  set_current_dir(current_dir): the captured path, resolved in
\* the new root
set_current_dir(r) ==
    [r EXCEPT !.pc = "exec", !.cwd = [path |-> r.cwd.path, root |-> r.root]]

\* run.rs:40-41  set_current_dir(current_dir)
enter_session_chdir(p) ==
    /\ proc[p].pc = "chdir"
    /\ \/ /\ Become(p, set_current_dir(proc[p]))
          /\ UNCHANGED nfail
       \/ EnvFail(p, "Io")
    /\ UNCHANGED fsvars

\* run.rs:57-62  Err(command.exec()): the process becomes the command, or
\* exec returns and run returns the I/O error
run_command(p) ==
    /\ proc[p].pc = "exec"
    /\ \/ /\ Become(p, [proc[p] EXCEPT !.pc = "cmd"])
          /\ UNCHANGED nfail
       \/ EnvFail(p, "Io")
    /\ UNCHANGED fsvars

\* every write going through to the host
WriteTarget_always_host(layer, q) == "host"

\* Where a write of the absolute path q lands for a process whose root is
\* the overlay `layer` of sandbox n (sessions.rs:100-113): under a bind of
\* /proc, /dev, /run, /tmp it is the host's directory that is written,
\* anywhere else the overlay copies up into upperdir = <dir>/diff.
WriteTarget(layer, q) ==
    IF q[1] \in BindsOf(layer) THEN "host" ELSE "diff"

\* Whose file a process finds at the absolute path q when its root is the
\* overlay `layer` of sandbox n (sessions.rs:83-113): under a bind the
\* host's file; anywhere else the file of upperdir = <dir>/diff if there is
\* one, else the one of lowerdir = / (the host's, taking the directory to
\* be on the root file system).  "none" when there is no file.
ReadSource(layer, n, q) ==
    IF q[1] \in BindsOf(layer) THEN host[q]
    ELSE IF q \in diff[n] THEN n
    ELSE host[q]

\* the command running inside the sandbox writes the file q
command_write(p, q) ==
    LET n == proc[p].root[1]
        k == proc[p].root[2]
    IN
    /\ proc[p].pc = "cmd"
    /\ q \notin proc[p].written
    /\ k >= 1
    /\ k <= Len(mounts[n])
    /\ "diff" \in sub[n]
    /\ IF WriteTarget(mounts[n][k], q) = "host"
       THEN /\ host' = [host EXCEPT ![q] = n]
            /\ UNCHANGED diff
       ELSE /\ diff' = [diff EXCEPT ![n] = @ \cup {q}]
            /\ UNCHANGED host
    /\ Become(p, [proc[p] EXCEPT !.written = @ \cup {q}])
    /\ UNCHANGED <<rootExists, sdir, sub, mounts, nfail>>

\* Mount propagation of a bind of the host's /<b> (sessions.rs:112-117),
\* the host's mounts being shared: as recursive_bind_mount leaves it the
\* bind is a peer of the host's mount and events go both ways; after
\* change_mount(SLAVE | REC) it only receives the host's.
PropagatesToHost(x) == x = "inherited"
ReceivesFromHost(x) == x \in {"inherited", "slave"}

\* the command running inside the sandbox mounts something under /<b>: on
\* a bind the event propagates as the bind's propagation says, on the
\* overlay's own directory it stays where it is
command_mount(p, b) ==
    LET n == proc[p].root[1]
        k == proc[p].root[2]
        stack == mounts[n][k][b]
    IN
    /\ proc[p].pc = "cmd"
    /\ proc[p].mnt = "-"
    /\ k >= 1
    /\ k <= Len(mounts[n])
    /\ Become(p, [proc[p] EXCEPT
                    !.mnt = b,
                    !.onhost = stack # <<>> /\ PropagatesToHost(stack[Len(stack)])])
    /\ UNCHANGED <<fsvars, nfail>>

\* the command exits
command_exit(p) ==
    /\ proc[p].pc = "cmd"
    /\ Become(p, Returned(proc[p], "exec"))
    /\ UNCHANGED <<fsvars, nfail>>

\* --------------------------------------------------------------- teardown
\* sessions.rs:131-135  unmount(merged/<b>, DETACH) for the idx-th bind;
\* EINVAL when merged/<b> is not a mount point
stop_session_unmount(p) ==
    LET r == proc[p]
        n == proc[p].cur
        b == Binds[proc[p].idx]
        r1 == [r EXCEPT !.calls = @ \cup {"umount"}]
        ok == IsMounted(n) /\ TopLayer(n)[b] # <<>>
    IN
    /\ proc[p].pc = "umount"
    /\ \/ /\ ok
          /\ mounts' = [mounts EXCEPT ![n] = PopBind(@, b)]
          /\ IF r.idx < Len(Binds)
             THEN Become(p, [r1 EXCEPT !.idx = @ + 1])
             ELSE Become(p, [r1 EXCEPT !.pc = "umount_m", !.idx = 0])
          /\ UNCHANGED <<rootExists, sdir, sub, diff, host, nfail>>
       \/ /\ ~ok
          /\ Become(p, Failed(r1, "Io"))
          /\ UNCHANGED <<fsvars, nfail>>
       \/ /\ ok
          /\ nfail < MaxFail
          /\ nfail' = nfail + 1
          /\ Become(p, [Failed(r1, "Io") EXCEPT !.envfail = TRUE])
          /\ UNCHANGED fsvars

\* the unmount of merged left out
PopOverlay_skipped(ms) == ms

\* the mount table after unmounting the topmost mount at merged
PopOverlay(ms) == SubSeq(ms, 1, Len(ms) - 1)

\* sessions.rs:137-138  unmount(merged, empty): EINVAL when nothing is
\* mounted, EBUSY when a mount is left under it or a process lives in it
stop_session_unmount_merged(p) ==
    LET r == proc[p]
        n == proc[p].cur
        r1 == [r EXCEPT !.calls = @ \cup {"umount"}]
        ok == /\ IsMounted(n)
              /\ BindsOf(TopLayer(n)) = {}
              /\ ~HeldBy(n, Len(mounts[n]))
    IN
    /\ proc[p].pc = "umount_m"
    /\ \/ /\ ok
          /\ mounts' = [mounts EXCEPT ![n] = PopOverlay(@)]
          /\ Become(p, after_stop_session(r1))
          /\ UNCHANGED <<rootExists, sdir, sub, diff, host, nfail>>
       \/ /\ ~ok
          /\ Become(p, Failed(r1, "Io"))
          /\ UNCHANGED <<fsvars, nfail>>
       \/ /\ ok
          /\ nfail < MaxFail
          /\ nfail' = nfail + 1
          /\ Become(p, [Failed(r1, "Io") EXCEPT !.envfail = TRUE])
          /\ UNCHANGED fsvars

\* ----------------------------------------------------------------- delete
\* sessions.rs:141-146  fuc_engine::remove_dir_all(session): one entry of
\* the tree at a time, children before the directory.  A mounted merged/
\* cannot be removed (EBUSY), but the removal has walked into it first,
\* through the bind of /tmp if there is one.
delete_session(p) ==
    LET r == proc[p]
        n == proc[p].cur
        r1 == [r EXCEPT !.calls = @ \cup {"rm"}]
    IN
    /\ proc[p].pc = "rm"
    /\ \/ /\ ~sdir[n]
          /\ Become(p, Failed(r1, "Io"))
          /\ UNCHANGED <<fsvars, nfail>>
       \/ /\ sdir[n]
          /\ \E l \in sub[n] :
                /\ ~(l = "merged" /\ IsMounted(n))
                /\ sub' = [sub EXCEPT ![n] = @ \ {l}]
                /\ diff' = IF l = "diff" THEN [diff EXCEPT ![n] = {}] ELSE diff
          /\ Become(p, r1)
          /\ UNCHANGED <<rootExists, sdir, mounts, host, nfail>>
       \/ /\ sdir[n]
          /\ "merged" \in sub[n]
          /\ IsMounted(n)
          /\ host' = [q \in Paths |->
                        IF q[1] \in BindsOf(TopLayer(n)) THEN "none" ELSE host[q]]
          /\ Become(p, Failed(r1, "Io"))
          /\ UNCHANGED <<rootExists, sdir, sub, mounts, diff, nfail>>
       \/ /\ sdir[n]
          /\ sub[n] = {}
          /\ sdir' = [sdir EXCEPT ![n] = FALSE]
          /\ Become(p, NextSession(r1))
          /\ UNCHANGED <<rootExists, sub, mounts, diff, host, nfail>>
       \/ /\ sdir[n]
          /\ nfail < MaxFail
          /\ nfail' = nfail + 1
          /\ Become(p, [Failed(r1, "Io") EXCEPT !.envfail = TRUE])
          /\ UNCHANGED fsvars

\* ---------------------------------------------------------- specification
Step(p) ==
    \/ \E n \in Names : run(p, n)
    \/ run_validate_permissions(p)
    \/ \E names \in NameLists : stop(p, names)
    \/ \E names \in NameLists : delete(p, names)
    \/ stop_all(p)
    \/ delete_all(p)
    \/ list(p)
    \/ iter_all_sessions(p)
    \/ is_active_session_merged(p)
    \/ is_active_session_parent(p)
    \/ maybe_create_session(p)
    \/ start_session_mount(p)
    \/ start_session_bind(p)
    \/ start_session_change_mount(p)
    \/ enter_session_chroot(p)
    \/ enter_session_chdir(p)
    \/ run_command(p)
    \/ \E q \in Paths : command_write(p, q)
    \/ \E b \in BindSet : command_mount(p, b)
    \/ command_exit(p)
    \/ stop_session_unmount(p)
    \/ stop_session_unmount_merged(p)
    \/ delete_session(p)

\* one invocation at a time
Next == Step("p1")

Spec == Init /\ [][Next]_vars

\* ------------------------------------------------- concurrent invocations
\* Two invocations against the same sandbox, their system calls interleaved.
\* They start from a state that invocations made one at a time leave
\* behind: the sandbox absent, inactive with its three directories, or
\* active and fully assembled.
ConcNames == {"s1"}

Assembled == [b \in BindSet |-> <<"slave">>]

InitConc ==
    /\ \E st \in {"absent", "inactive", "active"} :
          /\ rootExists = (st # "absent")
          /\ sdir = [n \in Names |-> n \in ConcNames /\ st # "absent"]
          /\ sub = [n \in Names |->
                      IF n \in ConcNames /\ st # "absent" THEN LayerSet ELSE {}]
          /\ mounts = [n \in Names |->
                      IF n \in ConcNames /\ st = "active" THEN <<Assembled>> ELSE <<>>]
    /\ diff = [n \in Names |-> {}]
    /\ host = [q \in Paths |-> IF q[1] = "etc" THEN "orig" ELSE "none"]
    /\ proc = [p \in Procs |-> Idle]
    /\ nfail = 0

\* each process makes one invocation
StepConc(p) ==
    \/ \E n \in ConcNames : proc[p].pc = "idle" /\ run(p, n)
    \/ run_validate_permissions(p)
    \/ \E n \in ConcNames : proc[p].pc = "idle" /\ stop(p, <<n>>)
    \/ \E n \in ConcNames : proc[p].pc = "idle" /\ delete(p, <<n>>)
    \/ proc[p].pc = "idle" /\ list(p)
    \/ iter_all_sessions(p)
    \/ is_active_session_merged(p)
    \/ is_active_session_parent(p)
    \/ maybe_create_session(p)
    \/ start_session_mount(p)
    \/ start_session_bind(p)
    \/ start_session_change_mount(p)
    \/ enter_session_chroot(p)
    \/ enter_session_chdir(p)
    \/ run_command(p)
    \/ \E q \in Paths : command_write(p, q)
    \/ command_exit(p)
    \/ stop_session_unmount(p)
    \/ stop_session_unmount_merged(p)
    \/ delete_session(p)

NextConc == \E p \in Procs : StepConc(p)

SpecConc == InitConc /\ [][NextConc]_vars

TypeOK ==
    /\ rootExists \in BOOLEAN
    /\ sdir \in [Names -> BOOLEAN]
    /\ sub \in [Names -> SUBSET LayerSet]
    /\ \A n \in Names : Len(mounts[n]) <= Cardinality(Procs)
    /\ diff \in [Names -> SUBSET Paths]
    /\ host \in [Paths -> {"none", "orig"} \cup Names]
    /\ nfail \in 0..MaxFail

\* ================================================================= claims
\* no invocation is in progress (Spec runs them one at a time, as p1)
Quiet == proc["p1"].pc \in {"idle", "done"}

\* spec 4.4: the pseudo/runtime directories bound into a sandbox
PseudoDirs == {"proc", "dev", "run", "tmp"}

\* the step in which the command of process p writes the path q
WriteStep(p, q) ==
    /\ proc[p].pc = "cmd"
    /\ q \notin proc[p].written
    /\ q \in proc'[p].written

\* what the activity probe answers for sandbox n
Probe(n) == mount_ids_differ(statx_merged(n))

C2_AllThreeOrNone ==
    Quiet => \A n \in Names : sdir[n] => sub[n] = {} \/ sub[n] = LayerSet

\* C3: after stop returned success, every sandbox it was asked to stop is
\* reported inactive by the probe and has no mount at merged nor below it.
C3_StopLeavesNothingMounted ==
    \A p \in Procs :
        (proc[p].pc = "done" /\ proc[p].kind = "stop" /\ proc[p].res = "ok") =>
            \A n \in proc[p].names : ~Probe(n) /\ mounts[n] = <<>>

\* C3 witness: a stop of an active sandbox has unmounted and returned Ok
C3_Witness ==
    \E p \in Procs :
        /\ proc[p].pc = "done" /\ proc[p].kind = "stop" /\ proc[p].res = "ok"
        /\ proc[p].started.st = "active"
        /\ "umount" \in proc[p].calls
        /\ mounts[proc[p].cur] = <<>>

\* C4: after delete returned success, every sandbox it was asked to delete
\* has no directory and no mount, whether it was active or not, and a list
\* that follows the delete prints none of those names.
C4_DeleteRemovesSandbox ==
    \A p \in Procs :
        /\ (proc[p].pc = "done" /\ proc[p].kind = "delete" /\ proc[p].res = "ok") =>
              \A n \in proc[p].names :
                  ~sdir[n] /\ sub[n] = {} /\ mounts[n] = <<>>
        /\ proc[p].kind = "list" =>
              \A i \in 1..Len(proc[p].printed) :
                  proc[p].printed[i][1] \notin proc[p].after

\* C4 witness: a list that followed a successful delete has printed the
\* sandbox that is left
C4_Witness ==
    \E p \in Procs :
        /\ proc[p].pc = "done" /\ proc[p].kind = "list" /\ proc[p].res = "ok"
        /\ proc[p].after # {}
        /\ proc[p].printed # <<>>

\* C5 (as stated): under every interleaving of run, stop and delete, diff/
\* is never removed while its sandbox is active, and a delete whose stop
\* step has not returned success removes nothing.
C5_DiffKeptWhileActive ==
    [][/\ \A n \in Names :
            ("diff" \in sub[n] /\ "diff" \notin sub'[n]) => ~IsMounted(n)
       /\ \A p \in Procs :
            (proc[p].kind = "delete" /\ proc'[p] # proc[p]
                /\ proc[p].pc \in {"probe_m", "probe_p", "umount"}) =>
                    sub' = sub /\ sdir' = sdir]_vars

\* the sets of binds that are a prefix of proc, dev, run, tmp
BindPrefixes == {{Binds[i] : i \in 1..k} : k \in 0..Len(Binds)}

\* C6 (as stated): a stop of a sandbox whose overlay is mounted and of whose
\* binds only a prefix is mounted unmounts what is mounted, returns success
\* and leaves the sandbox inactive (no system call failing for an outside
\* reason).
C6_StopRecoversHalfAssembled ==
    \A p \in Procs :
        (/\ proc[p].pc = "done"
         /\ proc[p].kind = "stop"
         /\ proc[p].started.st = "active"
         /\ proc[p].started.binds \in BindPrefixes
         /\ ~proc[p].envfail) =>
            proc[p].res = "ok" /\ mounts[proc[p].cur] = <<>>

\* C7 (as stated): of two concurrent runs against one sandbox only one
\* issues the overlay mount, and neither the overlay nor a bind is ever
\* mounted twice on the same mount point.
C7_MountedOnce ==
    /\ \A n \in Names :
          /\ Len(mounts[n]) <= 1
          /\ \A i \in 1..Len(mounts[n]) : \A b \in BindSet :
                Len(mounts[n][i][b]) <= 1
    /\ \A p, q \in Procs :
          (p # q /\ proc[p].kind = "run" /\ proc[q].kind = "run"
                 /\ proc[p].cur = proc[q].cur) =>
              ~("mount" \in proc[p].calls /\ "mount" \in proc[q].calls)

\* C8: a run against an active sandbox creates no directory and makes no
\* mount, bind or propagation call, goes from the probe straight to the
\* entry, and leaves the directories and the mount table as they were.
C8_RunOnActiveMountsNothing ==
    /\ [](\A p \in Procs :
            (proc[p].kind = "run" /\ proc[p].started.st = "active") =>
                /\ proc[p].calls \cap {"mkdir", "mount", "bind", "prop"} = {}
                /\ ~proc[p].envfail =>
                      \/ proc[p].pc \in {"gate", "probe_m", "probe_p", "chroot",
                                         "chdir", "exec", "cmd"}
                      \/ proc[p].res = "exec")
    /\ [][\A p \in Procs :
            (proc[p].kind = "run" /\ proc[p].started.st = "active"
                /\ proc[p].pc \notin {"idle", "done"}) =>
                    UNCHANGED <<rootExists, sdir, sub, mounts>>]_vars

\* C8 witness: a second run of an active sandbox has run its command
C8_Witness ==
    \E p \in Procs :
        /\ proc[p].kind = "run" /\ proc[p].started.st = "active"
        /\ proc[p].pc = "done" /\ proc[p].res = "exec"
        /\ proc[p].calls = {"chroot"}

\* the lifecycle transitions <<before, operation, after>> the claim lists
ClaimedTransitions ==
    {<<"absent", "run", "active">>, <<"inactive", "run", "active">>,
     <<"active", "stop", "inactive">>,
     <<"active", "delete", "absent">>, <<"inactive", "delete", "absent">>}

\* the two the code adds when a step fails
FailureTransitions ==
    {<<"absent", "run", "inactive">>, <<"active", "delete", "inactive">>}

\* a run in which every step succeeded leaves the sandbox with its three
\* directories (those it had are kept) and active
RunActivates(p) ==
    (proc[p].kind = "run" /\ proc[p].res = "exec"
        /\ proc[p].started.st \in {"absent", "inactive"}) =>
            /\ sub[proc[p].cur] = LayerSet
            /\ proc[p].started.dirs \subseteq sub[proc[p].cur]
            /\ StateOf(proc[p].cur) = "active"

\* the sandbox an invocation worked on is in the state it was in, or went
\* through one of the transitions T
Moved(p, T) ==
    (proc[p].pc = "done" /\ proc[p].cur \in Names) =>
        \/ proc[p].started.st = StateOf(proc[p].cur)
        \/ <<proc[p].started.st, proc[p].kind, StateOf(proc[p].cur)>> \in T

\* C9 (as stated): a fully successful run of an absent or inactive sandbox
\* leaves it with its three directories and active, and an invocation
\* changes the state of its sandbox only absent->active or inactive->active
\* (run), active->inactive (stop), active->absent or inactive->absent
\* (delete).
C9_OnlyClaimedTransitions ==
    \A p \in Procs : RunActivates(p) /\ Moved(p, ClaimedTransitions)

\* C9 (amended): the same, with two more transitions: absent->inactive by a
\* run whose directory creation or assembly failed, and active->inactive by
\* a delete whose removal failed after its stop.
C9_LifecycleTransitions ==
    \A p \in Procs :
        RunActivates(p) /\ Moved(p, ClaimedTransitions \cup FailureTransitions)

\* C9 witness: a run of an absent sandbox has created, assembled and run
C9_Witness ==
    \E p \in Procs :
        /\ proc[p].kind = "run" /\ proc[p].pc = "done" /\ proc[p].res = "exec"
        /\ proc[p].started.st = "absent"
        /\ StateOf(proc[p].cur) = "active"
        /\ sub[proc[p].cur] = LayerSet

\* C10: a stop of an inactive sandbox whose directories exist issues no
\* unmount, returns success and changes nothing on disk or in the mount
\* table.
C10_StopOfInactiveIsNoOp ==
    /\ [](\A p \in Procs :
            (proc[p].kind = "stop" /\ proc[p].pc # "probe_m"
                /\ proc[p].started.st = "inactive"
                /\ "merged" \in proc[p].started.dirs) =>
                    /\ "umount" \notin proc[p].calls
                    /\ (proc[p].pc = "done" /\ ~proc[p].envfail) => proc[p].res = "ok")
    /\ [][\A p \in Procs :
            (proc[p].kind = "stop"
                /\ proc[p].pc \in {"probe_p", "umount", "umount_m"}
                /\ proc[p].started.st = "inactive"
                /\ "merged" \in proc[p].started.dirs) =>
                    UNCHANGED fsvars]_vars

\* C10 witness: a stop of a stopped sandbox has returned Ok
C10_Witness ==
    \E p \in Procs :
        /\ proc[p].kind = "stop" /\ proc[p].pc = "done" /\ proc[p].res = "ok"
        /\ proc[p].started.st = "inactive"
        /\ proc[p].started.dirs = LayerSet
        /\ proc[p].after = {}

\* C11 (as stated): a delete with an explicit name of a sandbox that exists
\* returns success (no system call failing for an outside reason); a delete
\* or a stop with an explicit name of a sandbox that is absent, as after a
\* first delete, fails with SessionNotFound and has made no call that
\* changes state.
C11_DeleteTwiceNotFound ==
    \A p \in Procs :
        (proc[p].pc = "done" /\ ~proc[p].all /\ ~proc[p].envfail) =>
            /\ (proc[p].kind = "delete" /\ proc[p].started.st # "absent") =>
                  proc[p].res = "ok"
            /\ (proc[p].kind \in {"stop", "delete"}
                    /\ proc[p].started.st = "absent") =>
                  proc[p].res = "SessionNotFound" /\ proc[p].calls = {}

\* ---------------------------------------- invocations on different sandboxes
\* Two invocations, each against its own sandbox name, their system calls
\* interleaved.  Each sandbox starts absent, inactive with its three
\* directories, or active and fully assembled.
Target == [p \in Procs |-> IF p = "p1" THEN "s1" ELSE "s2"]

InitIndep ==
    /\ \E st \in [Names -> {"absent", "inactive", "active"}] :
          /\ rootExists = (\E n \in Names : st[n] # "absent")
          /\ sdir = [n \in Names |-> st[n] # "absent"]
          /\ sub = [n \in Names |-> IF st[n] # "absent" THEN LayerSet ELSE {}]
          /\ mounts = [n \in Names |->
                        IF st[n] = "active" THEN <<Assembled>> ELSE <<>>]
    /\ diff = [n \in Names |-> {}]
    /\ host = [q \in Paths |-> IF q[1] = "etc" THEN "orig" ELSE "none"]
    /\ proc = [p \in Procs |-> Idle]
    /\ nfail = 0

\* each process makes one invocation against its sandbox
StepIndep(p) ==
    \/ proc[p].pc = "idle" /\ run(p, Target[p])
    \/ run_validate_permissions(p)
    \/ proc[p].pc = "idle" /\ stop(p, <<Target[p]>>)
    \/ proc[p].pc = "idle" /\ delete(p, <<Target[p]>>)
    \/ is_active_session_merged(p)
    \/ is_active_session_parent(p)
    \/ maybe_create_session(p)
    \/ start_session_mount(p)
    \/ start_session_bind(p)
    \/ start_session_change_mount(p)
    \/ enter_session_chroot(p)
    \/ enter_session_chdir(p)
    \/ run_command(p)
    \/ \E q \in Paths : command_write(p, q)
    \/ command_exit(p)
    \/ stop_session_unmount(p)
    \/ stop_session_unmount_merged(p)
    \/ delete_session(p)

NextIndep == \E p \in Procs : StepIndep(p)

SpecIndep == InitIndep /\ [][NextIndep]_vars

\* C12: every step of an invocation against a sandbox A (run, stop or
\* delete with the explicit name A), interleaved in any way with an
\* invocation against another sandbox, leaves the directories, the mounts,
\* the upper layer and the probed activity of every sandbox B # A as they
\* were.
C12_OtherSandboxesUntouched ==
    [][\A p \in Procs :
        StepIndep(p) =>
            \A n \in Names \ {Target[p]} :
                /\ sdir'[n] = sdir[n]
                /\ sub'[n] = sub[n]
                /\ mounts'[n] = mounts[n]
                /\ diff'[n] = diff[n]
                /\ Probe(n)' = Probe(n)]_vars

\* C12 witness: a run has activated s1 while a delete removed the active s2
C12_Witness ==
    /\ proc["p1"].pc = "done" /\ proc["p1"].kind = "run"
    /\ proc["p1"].res = "exec" /\ proc["p1"].started.st = "absent"
    /\ proc["p2"].pc = "done" /\ proc["p2"].kind = "delete"
    /\ proc["p2"].res = "ok" /\ proc["p2"].started.st = "active"
    /\ StateOf("s1") = "active" /\ StateOf("s2") = "absent"

\* ------------------------------------------------------ the gate on its own
\* A run by a process of each kind of credentials, up to the gate's answer.
InitGate ==
    /\ rootExists = FALSE
    /\ sdir = [n \in Names |-> FALSE]
    /\ sub = [n \in Names |-> {}]
    /\ mounts = [n \in Names |-> <<>>]
    /\ diff = [n \in Names |-> {}]
    /\ host = [q \in Paths |-> IF q[1] = "etc" THEN "orig" ELSE "none"]
    /\ \E c \in GateInputs :
          proc = [p \in Procs |->
                    IF p = "p1"
                    THEN [Idle EXCEPT !.pc = "gate", !.kind = "run", !.cur = "s1",
                                      !.names = {"s1"}, !.cred = c]
                    ELSE Idle]
    /\ nfail = 0

NextGate == run_validate_permissions("p1")

SpecGate == InitGate /\ [][NextGate]_vars

\* the answer of the gate of process p, once it has answered
Answered(p) == proc[p].kind = "run" /\ proc[p].cred # <<>> /\ proc[p].pc # "gate"
Answer(p) == IF proc[p].pc = "done" THEN proc[p].res ELSE "ok"

\* spec 4.1: change-ownership, DAC-override, chroot, mount-admin
GateCaps == {"CHOWN", "DAC_OVERRIDE", "SYS_CHROOT", "SYS_ADMIN"}

\* C13 (as stated): the gate's answer is a function of the real UID, the
\* result of set_thread_uid(root) and the effective capability set: pass
\* for root; else pass if becoming root succeeds and I/O error if it fails
\* other than with permission-denied; on permission-denied pass iff the
\* capabilities contain the four, and SetupRequired otherwise.
C13_GateOfThreeInputs ==
    \A p \in Procs :
        Answered(p) =>
            LET c == proc[p].cred IN
            Answer(p) =
                IF c.uidIsRoot THEN "ok"
                ELSE IF c.setuid = "ok" THEN "ok"
                ELSE IF c.setuid # "EPERM" THEN "Io"
                ELSE IF GateCaps \subseteq c.caps THEN "ok"
                ELSE "SetupRequired"

\* C13 (amended): the same, except that on permission-denied the gate fails
\* with an I/O error when the effective capability set cannot be retrieved;
\* SetupRequired is the answer exactly when the UID is not root, becoming
\* root was denied, and the capabilities were retrieved and lack one of the
\* four.
C13_GateOutcome ==
    \A p \in Procs :
        Answered(p) =>
            LET c == proc[p].cred
                denied == ~c.uidIsRoot /\ c.setuid = "EPERM"
            IN
            /\ c.uidIsRoot => Answer(p) = "ok"
            /\ (~c.uidIsRoot /\ c.setuid = "ok") => Answer(p) = "ok"
            /\ (~c.uidIsRoot /\ c.setuid \notin {"ok", "EPERM"}) => Answer(p) = "Io"
            /\ (denied /\ ~c.capsRead) => Answer(p) = "Io"
            /\ (denied /\ c.capsRead) =>
                  (Answer(p) = "ok" <=> GateCaps \subseteq c.caps)
            /\ Answer(p) = "SetupRequired" <=>
                  (denied /\ c.capsRead /\ ~(GateCaps \subseteq c.caps))

\* C13 witness: the gate has answered SetupRequired to a process that is not
\* root, may not become root and lacks SYS_CHROOT only
C13_Witness ==
    \E p \in Procs :
        /\ Answered(p)
        /\ Answer(p) = "SetupRequired"
        /\ proc[p].cred.setuid = "EPERM"
        /\ proc[p].cred.caps = AllCaps \ {"SYS_CHROOT"}

\* C14 (as stated): the probe answers active iff merged/ is a mount of its
\* own; when merged/ is not found it answers inactive with must_exist =
\* false and fails with SessionNotFound with must_exist = true; and
\* SessionNotFound is the error only then: an invocation that ends with it
\* probed in must_exist = true mode a sandbox that had no merged/.
C14_ProbeErrorKinds ==
    \A p \in Procs :
        /\ (proc[p].kind = "list" /\ proc[p].printed # <<>>
                /\ proc[p].printed[Len(proc[p].printed)][1] = proc[p].cur) =>
              proc[p].printed[Len(proc[p].printed)][2] = (proc[p].started.st = "active")
        /\ (proc[p].pc = "done" /\ proc[p].kind \in {"stop", "delete", "list"}
                /\ proc[p].cur \in Names
                /\ "merged" \notin proc[p].started.dirs) =>
              proc[p].res = "SessionNotFound"
        /\ (proc[p].kind = "run" /\ proc[p].pc = "mkdir") =>
              proc[p].started.st # "active"
        /\ proc[p].res = "SessionNotFound" =>
              must_exist(proc[p].kind) /\ "merged" \notin proc[p].started.dirs

\* the entries of the cache root
Entries == {n \in Names : sdir[n]}

\* C15 (as stated): for every set of entries under the cache root, also one
\* with an entry that has no merged/, a list (no system call failing for an
\* outside reason) returns success having printed every entry exactly once,
\* marked active iff that sandbox is active.
C15_ListPrintsEveryEntry ==
    \A p \in Procs :
        (proc[p].pc = "done" /\ proc[p].kind = "list" /\ ~proc[p].envfail) =>
            /\ proc[p].res = "ok"
            /\ Len(proc[p].printed) = Cardinality(Entries)
            /\ Range(proc[p].printed) = {<<n, Probe(n)>> : n \in Entries}

\* C16: when the cache root does not exist, list prints nothing and returns
\* success, stop(all) and delete(all) return success without an unmount or
\* a removal, and none of them creates the cache root or changes anything
\* else.
C16_NoCacheRootIsEmpty ==
    /\ [](\A p \in Procs :
            (proc[p].all /\ proc[p].pc = "done" /\ ~rootExists) =>
                /\ proc[p].res = "ok"
                /\ proc[p].printed = <<>>
                /\ proc[p].calls = {})
    /\ [][\A p \in Procs :
            (proc[p].all /\ proc[p].pc = "readdir" /\ ~rootExists) =>
                /\ UNCHANGED fsvars
                /\ proc'[p].pc = "done"]_vars

\* C16 witness: a delete of all sandboxes has returned Ok with no cache root
C16_Witness ==
    \E p \in Procs :
        /\ proc[p].all /\ proc[p].kind = "delete"
        /\ proc[p].pc = "done" /\ proc[p].res = "ok"
        /\ ~rootExists

\* C17: no step of a list creates, removes, mounts or unmounts anything,
\* and a list that runs right after another list, nothing in between, ends
\* as the first did and, when they succeed, has printed the same set of
\* names with the same marking (no system call failing for an outside
\* reason in either).
C17_ListIsStable ==
    /\ [][\A p \in Procs :
            (proc[p].kind = "list" /\ proc[p].pc \notin {"idle", "done"}
                /\ proc'[p] # proc[p]) => UNCHANGED fsvars]_vars
    /\ [](\A p \in Procs :
            (proc[p].kind = "list" /\ proc[p].pc = "done" /\ proc[p].prev # <<>>
                /\ ~proc[p].envfail /\ ~proc[p].prev.envfail) =>
                    /\ proc[p].res = proc[p].prev.res
                    /\ proc[p].res = "ok" =>
                          Range(proc[p].printed) = proc[p].prev.out)

\* C17 witness: the second of two lists in a row has printed an active and
\* an inactive sandbox, as the first did
C17_Witness ==
    \E p \in Procs :
        /\ proc[p].kind = "list" /\ proc[p].pc = "done" /\ proc[p].res = "ok"
        /\ proc[p].prev # <<>>
        /\ proc[p].prev.out = Range(proc[p].printed)
        /\ \E n, m \in Names :
              Range(proc[p].printed) = {<<n, TRUE>>, <<m, FALSE>>}

\* a command is running in sandbox n with the overlay k of n as its root
Inside(p, n, k) ==
    /\ proc[p].pc = "cmd"
    /\ proc[p].root = <<n, k>>
    /\ k \in 1..Len(mounts[n])

AssembledBy(p) ==
    /\ proc[p].kind = "run"
    /\ proc[p].started.st # "active"
    /\ \/ proc[p].pc \in {"chroot", "chdir", "exec", "cmd"}
       \/ proc[p].pc = "done" /\ proc[p].res = "exec"

\* C20: after a successful assembly each of merged/proc, merged/dev,
\* merged/run and merged/tmp is a bind whose propagation is downstream: it
\* receives the host's mount events and passes none back, so a mount the
\* command makes under one of them does not show on the host.
C20_BindsAreDownstream ==
    \A p \in Procs :
        AssembledBy(p) =>
            /\ \A b \in PseudoDirs :
                  LET stack == TopLayer(proc[p].cur)[b] IN
                  /\ stack # <<>>
                  /\ \A i \in 1..Len(stack) :
                        ~PropagatesToHost(stack[i]) /\ ReceivesFromHost(stack[i])
            /\ proc[p].mnt \in PseudoDirs => ~proc[p].onhost

\* C20 witness: the command of a run that assembled the sandbox has made a
\* mount under /tmp and it does not show on the host
C20_Witness ==
    \E p \in Procs :
        /\ AssembledBy(p)
        /\ proc[p].pc = "cmd"
        /\ proc[p].mnt = "tmp"
        /\ ~proc[p].onhost
        /\ TopLayer(proc[p].cur)["tmp"] = <<"slave">>

\* ------------------------------------------------------ scoped path handles
\* A path buffer is a PathBuf seen as its components.  The session names
\* reach the buffer as the command line gives them (main.rs:101-103,
\* 132-141): a plain name, the empty string, a name with a separator in it,
\* an absolute path.
Rel(comps) == [abs |-> FALSE, comps |-> comps]

Children ==
    {Rel(<<"s1">>), Rel(<<"s2">>), Rel(<<>>), Rel(<<"a", "s1">>),
     [abs |-> TRUE, comps |-> <<"s1">>]}

\* <cache_root>/forkfs
SessionsDir == [abs |-> TRUE, comps |-> <<"cache", "forkfs">>]

\* lib.rs:213  PathBuf::push: an absolute child replaces the buffer, a
\* relative one is appended component by component (an empty one adds a
\* trailing separator and no component)
push(path, child) ==
    IF child.abs THEN child
    ELSE [abs |-> path.abs, comps |-> path.comps \o child.comps]

\* lib.rs:246  PathBuf::pop: the buffer is truncated to its parent, that is
\* by its last component, if it has one
pop(path) ==
    IF path.comps = <<>> THEN path
    ELSE [path EXCEPT !.comps = SubSeq(@, 1, Len(@) - 1)]

\* lib.rs:212-215  TmpPath::new(path, child); `saved` remembers the value
\* of the buffer before each handle that is alive
TmpPath_new(r, child) ==
    [r EXCEPT !.saved = Append(@, r.buf), !.buf = push(r.buf, child)]

\* lib.rs:244-248  Drop for TmpPath
TmpPath_drop(r) ==
    [r EXCEPT !.buf = pop(r.buf), !.saved = SubSeq(@, 1, Len(@) - 1)]

ChildLists == UNION {[1..k -> Children] : k \in 1..MaxNames}

\* sessions.rs:173  let mut sessions_dir = get_sessions_dir()
InitPath ==
    /\ rootExists = FALSE
    /\ sdir = [n \in Names |-> FALSE]
    /\ sub = [n \in Names |-> {}]
    /\ mounts = [n \in Names |-> <<>>]
    /\ diff = [n \in Names |-> {}]
    /\ host = [q \in Paths |-> IF q[1] = "etc" THEN "orig" ELSE "none"]
    /\ \E names \in ChildLists :
          proc = [p \in Procs |->
                    [pc |-> IF p = "p1" THEN "loop" ELSE "done",
                     todo |-> IF p = "p1" THEN names ELSE <<>>,
                     cur |-> Rel(<<>>), buf |-> SessionsDir, saved |-> <<>>,
                     ops |-> <<>>, res |-> "ok"]]
    /\ nfail = 0

\* sessions.rs:174-175, 178  the loop of iter_op takes the next name and
\* makes the handle of its session directory, or returns Ok(())
iter_op_next(p) ==
    LET r == proc[p] IN
    /\ r.pc = "loop"
    /\ IF r.todo = <<>>
       THEN Become(p, [r EXCEPT !.pc = "done"])
       ELSE LET r1 == TmpPath_new([r EXCEPT !.cur = Head(r.todo),
                                            !.todo = Tail(r.todo)],
                                  Head(r.todo))
            IN Become(p, [r1 EXCEPT !.pc = "probe",
                                    !.ops = Append(@, [name |-> r1.cur,
                                                       path |-> r1.buf])])
    /\ UNCHANGED <<fsvars, nfail>>

\* sessions.rs:176, 125, 185  f(&mut session): stop_session probes, and the
\* probe makes the handle of <session>/merged
iter_op_probe(p) ==
    LET r == proc[p] IN
    /\ r.pc = "probe"
    /\ Become(p, [TmpPath_new(r, Rel(<<"merged">>)) EXCEPT !.pc = "probed"])
    /\ UNCHANGED <<fsvars, nfail>>

\* sessions.rs:186-195  the statx of merged returns, its handle is dropped
\* at the end of the block, with a mount-id or on the way out with the error
iter_op_probed(p) ==
    LET r == proc[p] IN
    /\ r.pc = "probed"
    /\ \E res \in {"ok", "SessionNotFound"} :
          Become(p, [TmpPath_drop(r) EXCEPT !.pc = "drop", !.res = res])
    /\ UNCHANGED <<fsvars, nfail>>

\* sessions.rs:176-177  f returned: the handle of the session directory is
\* dropped, at the end of the iteration or by the `?` that returns the error
iter_op_drop(p) ==
    LET r == proc[p] IN
    /\ r.pc = "drop"
    /\ Become(p, [TmpPath_drop(r) EXCEPT
                    !.pc = IF r.res = "ok" THEN "loop" ELSE "done"])
    /\ UNCHANGED <<fsvars, nfail>>

NextPath ==
    \/ iter_op_next("p1")
    \/ iter_op_probe("p1")
    \/ iter_op_probed("p1")
    \/ iter_op_drop("p1")

SpecPath == InitPath /\ [][NextPath]_vars

\* C21 (as stated): the release of a scoped path handle, at the end of its
\* scope or on an error return, leaves the path buffer with exactly the
\* value it had before the handle was made, whatever child was given:
\* plain, empty, of several components or absolute.
C21_HandleRestoresBuffer ==
    [][\A p \in Procs :
        (proc[p].pc \in {"probed", "drop"} /\ proc'[p] # proc[p]) =>
            proc'[p].buf = proc[p].saved[Len(proc[p].saved)]]_vars

\* <dir>/<name> with the name taken as it is written
Verbatim(dir, name) == [abs |-> dir.abs, comps |-> dir.comps \o name.comps]

\* C22 (as stated): every name of an explicit list is operated on at
\* exactly <cache_root>/forkfs/<name>, the name taken verbatim, whatever
\* names come before it in the list.
C22_EachNameAtItsOwnPath ==
    \A p \in Procs :
        \A i \in 1..Len(proc[p].ops) :
            proc[p].ops[i].path = Verbatim(SessionsDir, proc[p].ops[i].name)

\* ----------------------------------------------- the UID of the command
\* Strings are sequences of characters, UIDs are written in decimal without
\* leading zeros.
\* values that are no string, written as sequences like the strings are
Unset == <<"<unset>">>
NotUtf8 == <<"<not utf-8>">>
ParseErr == <<"<error>">>
Unchanged == <<"<unchanged>">>

Digits == <<"0", "1", "2", "3", "4", "5", "6", "7", "8", "9">>
IsDigit(c) == \E i \in 1..10 : Digits[i] = c
DigitVal(c) == (CHOOSE i \in 1..10 : Digits[i] = c) - 1

\* u32::MAX
U32Max == <<"4", "2", "9", "4", "9", "6", "7", "2", "9", "5">>

RECURSIVE StripZeros(_)
StripZeros(s) ==
    IF Len(s) > 1 /\ s[1] = "0" THEN StripZeros(Tail(s)) ELSE s

\* a <= b for two digit strings of the same length
RECURSIVE LexLeq(_, _)
LexLeq(a, b) ==
    IF a = <<>> THEN TRUE
    ELSE IF DigitVal(a[1]) < DigitVal(b[1]) THEN TRUE
    ELSE IF DigitVal(a[1]) > DigitVal(b[1]) THEN FALSE
    ELSE LexLeq(Tail(a), Tail(b))

\* run.rs:52  uid.parse() to the u32 that Command::uid takes: an optional
\* "+", then one or more decimal digits, the value at most u32::MAX; ParseErr
\* for anything else
ParseU32(s) ==
    LET body == IF s # <<>> /\ s[1] = "+" THEN Tail(s) ELSE s
        v == StripZeros(body)
    IN
    IF body = <<>> \/ \E i \in 1..Len(body) : ~IsDigit(body[i]) THEN ParseErr
    ELSE IF Len(v) > Len(U32Max) THEN ParseErr
    ELSE IF Len(v) = Len(U32Max) /\ ~LexLeq(v, U32Max) THEN ParseErr
    ELSE v

\* the values SUDO_UID is tried with: not set, not UTF-8, or a string
SudoUids ==
    {Unset, NotUtf8,
     <<"1", "0", "0", "0">>, <<"0">>, <<>>, <<"a">>, <<"-", "1">>,
     <<"+", "5">>, <<"0", "0", "7">>, U32Max,
     <<"4", "2", "9", "4", "9", "6", "7", "2", "9", "6">>}

\* the real UIDs run is tried with
RealUids == {<<"0">>, <<"1", "0", "0", "0">>, <<"1", "0", "0", "1">>}

\* the downgrade as the first version had it (lib.rs:136-140): SUDO_UID
\* alone decides
command_uid_from_sudo_only(stay_root, prev_uid, sudo_uid) ==
    IF sudo_uid \notin {Unset, NotUtf8} /\ ParseU32(sudo_uid) # ParseErr
    THEN ParseU32(sudo_uid)
    ELSE Unchanged

\* run.rs:47-55  the UID run_command gives to the Command, Unchanged when
\* it calls Command::uid not at all
command_uid(stay_root, prev_uid, sudo_uid) ==
    IF stay_root THEN Unchanged
    ELSE IF prev_uid # <<"0">> THEN prev_uid
    ELSE IF sudo_uid \notin {Unset, NotUtf8} /\ ParseU32(sudo_uid) # ParseErr
    THEN ParseU32(sudo_uid)
    ELSE Unchanged

InitUid ==
    /\ rootExists = FALSE
    /\ sdir = [n \in Names |-> FALSE]
    /\ sub = [n \in Names |-> {}]
    /\ mounts = [n \in Names |-> <<>>]
    /\ diff = [n \in Names |-> {}]
    /\ host = [q \in Paths |-> IF q[1] = "etc" THEN "orig" ELSE "none"]
    /\ \E stay_root \in BOOLEAN, prev_uid \in RealUids, sudo_uid \in SudoUids :
          proc = [p \in Procs |->
                    [pc |-> IF p = "p1" THEN "exec" ELSE "done",
                     stay_root |-> stay_root, prev_uid |-> prev_uid,
                     sudo_uid |-> sudo_uid, uid |-> <<>>]]
    /\ nfail = 0

\* run.rs:44-57  run_command up to the exec
run_command_uid(p) ==
    LET r == proc[p] IN
    /\ r.pc = "exec"
    /\ Become(p, [r EXCEPT !.pc = "cmd",
                           !.uid = command_uid(r.stay_root, r.prev_uid, r.sudo_uid)])
    /\ UNCHANGED <<fsvars, nfail>>

NextUid == run_command_uid("p1")

SpecUid == InitUid /\ [][NextUid]_vars

\* the decimal strings that are a UID, with the UID they denote
UidStrings ==
    [s \in {<<"1", "0", "0", "0">>, <<"0">>, <<"+", "5">>, <<"0", "0", "7">>, U32Max}
        |-> IF s = <<"+", "5">> THEN <<"5">>
            ELSE IF s = <<"0", "0", "7">> THEN <<"7">>
            ELSE s]

\* C23: with stay_root the command is given no UID; without it the command
\* is given the real UID when that is not root, whatever SUDO_UID holds;
\* when the real UID is root it is given the UID that SUDO_UID denotes if
\* the variable is set to the decimal text of one, and none otherwise.
C23_CommandUid ==
    \A p \in Procs :
        proc[p].pc = "cmd" =>
            LET r == proc[p] IN
            /\ r.stay_root => r.uid = Unchanged
            /\ (~r.stay_root /\ r.prev_uid # <<"0">>) => r.uid = r.prev_uid
            /\ (~r.stay_root /\ r.prev_uid = <<"0">>) =>
                  IF r.sudo_uid \in DOMAIN UidStrings
                  THEN r.uid = UidStrings[r.sudo_uid]
                  ELSE r.uid = Unchanged

\* C23 witness: root through sudo without stay_root runs the command as the
\* user that called sudo
C23_Witness ==
    \E p \in Procs :
        /\ proc[p].pc = "cmd"
        /\ ~proc[p].stay_root
        /\ proc[p].prev_uid = <<"0">>
        /\ proc[p].sudo_uid = <<"1", "0", "0", "0">>
        /\ proc[p].uid = <<"1", "0", "0", "0">>

\* the steps of run, <<from, to>>, in the order the claim gives: gate,
\* probe, create, assemble (overlay, then bind and propagation in turn),
\* chroot, chdir, exec
RunOrder ==
    {<<"gate", "probe_m">>, <<"probe_m", "probe_p">>,
     <<"probe_m", "mkdir">>, <<"probe_p", "mkdir">>,
     <<"mkdir", "mkdir">>, <<"mkdir", "mount">>,
     <<"mount", "bind">>, <<"bind", "prop">>, <<"prop", "bind">>,
     <<"prop", "chroot">>, <<"chroot", "chdir">>, <<"chdir", "exec">>,
     <<"exec", "cmd">>, <<"cmd", "cmd">>}

\* C24: a run starts with the privilege gate and goes through probe,
\* creation of the layer directories, assembly, chroot, chdir and exec in
\* that order, creation and assembly being skipped exactly when the probe
\* found the sandbox active; a step that fails ends the run, having changed
\* nothing itself; the gate changes nothing, and when it fails the run has
\* made no call at all.
C24_RunStepsInOrder ==
    [][\A p \in Procs :
        LET r == proc[p]
            t == proc'[p]
        IN
        /\ (t # r /\ t.kind = "run" /\ r.pc \in {"idle", "done"}) => t.pc = "gate"
        /\ (t # r /\ r.kind = "run" /\ r.pc \notin {"idle", "done"}) =>
              \/ /\ t.pc = "done"
                 /\ t.res # "ok"
                 /\ t.res # "exec" => UNCHANGED fsvars
              \/ /\ <<r.pc, t.pc>> \in RunOrder
                 /\ r.pc = "probe_p" =>
                       (t.pc = "chroot") = (r.started.st = "active")
              \/ /\ <<r.pc, t.pc>> = <<"probe_p", "chroot">>
                 /\ r.started.st = "active"
        /\ (t # r /\ r.kind = "run" /\ r.pc = "gate") =>
              /\ UNCHANGED fsvars
              /\ t.pc = "done" => t.calls = {}]_vars

\* C24 witness: a run of an absent sandbox has made every call of every
\* step and its command is running
C24_Witness ==
    \E p \in Procs :
        /\ proc[p].kind = "run" /\ proc[p].pc = "cmd"
        /\ proc[p].started.st = "absent"
        /\ proc[p].calls = {"mkdir", "mount", "bind", "prop", "chroot"}

\* sessions.rs:83-98  the options of the overlay mount for the sandbox
\* directory dir, each path made with a scoped handle on dir
overlay_options(dir) ==
    LET r0 == [buf |-> dir, saved |-> <<>>]
        d == TmpPath_new(r0, Rel(<<"diff">>))
        r1 == TmpPath_drop(d)
        w == TmpPath_new(r1, Rel(<<"work">>))
    IN [lowerdir |-> [abs |-> TRUE, comps |-> <<>>],
        upperdir |-> d.buf,
        workdir |-> w.buf]

\* spec 4.4: the fixed ordered list [proc, dev, run, tmp]
PseudoOrder == <<"proc", "dev", "run", "tmp">>

\* C25: assembly mounts the overlay at merged/ first, with lowerdir=/,
\* upperdir=<dir>/diff and workdir=<dir>/work, then takes proc, dev, run,
\* tmp in that order, binding each and changing its propagation before the
\* next is bound; nothing is bound unless the overlay was mounted, and a
\* step that fails mounts nothing and ends the assembly.
C25_AssemblyOrder ==
    /\ [](\A n \in Names :
            LET dir == Verbatim(SessionsDir, Rel(<<n>>)) IN
            overlay_options(dir) =
                [lowerdir |-> [abs |-> TRUE, comps |-> <<>>],
                 upperdir |-> Verbatim(dir, Rel(<<"diff">>)),
                 workdir |-> Verbatim(dir, Rel(<<"work">>))])
    /\ [](\A p \in Procs :
            (proc[p].kind = "run" /\ proc[p].pc \in {"bind", "prop"}) =>
                /\ "mount" \in proc[p].calls
                /\ IsMounted(proc[p].cur)
                /\ \A j \in 1..Len(PseudoOrder) :
                      TopLayer(proc[p].cur)[PseudoOrder[j]] =
                          IF j < proc[p].idx THEN <<"slave">>
                          ELSE IF j = proc[p].idx /\ proc[p].pc = "prop"
                          THEN <<"inherited">>
                          ELSE <<>>)
    /\ [](\A p \in Procs :
            (proc[p].kind = "run" /\ proc[p].calls \cap {"bind", "prop"} # {}) =>
                "mount" \in proc[p].calls)
    /\ [][\A p \in Procs :
            (proc[p].kind = "run" /\ proc[p].pc \in {"mount", "bind", "prop"}
                /\ proc'[p] # proc[p]) =>
                    \/ proc'[p].pc = "done" /\ mounts' = mounts
                    \/ /\ proc[p].pc = "mount" /\ proc'[p].pc = "bind"
                       /\ mounts'[proc[p].cur] = Append(mounts[proc[p].cur], NoBinds)
                    \/ proc[p].pc = "bind" /\ proc'[p].pc = "prop"
                    \/ proc[p].pc = "prop" /\ proc'[p].pc \in {"bind", "chroot"}]_vars

\* C25 witness: proc, dev and run are bound and downstream, tmp has just
\* been bound and its propagation is about to be changed
C25_Witness ==
    \E p \in Procs :
        /\ proc[p].kind = "run" /\ proc[p].pc = "prop" /\ proc[p].idx = 4
        /\ TopLayer(proc[p].cur) =
              [b \in BindSet |-> IF b = "tmp" THEN <<"inherited">> ELSE <<"slave">>]

\* the invocations that go through stop_session
Teardown == {"stop", "delete"}

\* C26: teardown unmounts the binds before the union mount: stop detaches
\* merged/proc, merged/dev, merged/run and merged/tmp, one after the other,
\* and issues the normal unmount of merged/ only after the four bind
\* unmounts succeeded; a detach unmount is not refused because of a holder,
\* and only the unmount of merged/ removes the overlay.
C26_BindsUnmountedFirst ==
    [][\A p \in Procs :
        LET r == proc[p]
            t == proc'[p]
            n == proc[p].cur
        IN
        (r.kind \in Teardown /\ r.cur \in Names /\ t # r) =>
            /\ (r.pc = "probe_p" /\ t.pc \in {"umount", "umount_m"}) =>
                  /\ t.pc = "umount" /\ t.idx = 1
                  /\ mounts' = mounts
            /\ r.pc = "umount" =>
                  \/ /\ t.pc = "done" /\ t.res = "Io"
                     /\ mounts' = mounts
                  \/ /\ IsMounted(n)
                     /\ Len(mounts'[n]) = Len(mounts[n])
                     /\ \A b \in BindSet :
                          Len(TopLayer(n)'[b]) =
                              IF b = PseudoOrder[r.idx]
                              THEN Len(TopLayer(n)[b]) - 1
                              ELSE Len(TopLayer(n)[b])
                     /\ IF r.idx < 4
                        THEN t.pc = "umount" /\ t.idx = r.idx + 1
                        ELSE t.pc = "umount_m"
            /\ t.pc = "umount_m" => (r.pc = "umount" /\ r.idx = 4)
            /\ r.pc = "umount_m" =>
                  \/ /\ t.pc = "done" /\ t.res = "Io"
                     /\ mounts' = mounts
                  \/ /\ t.res # "Io"
                     /\ ~HeldBy(n, Len(mounts[n]))
                     /\ mounts'[n] = SubSeq(mounts[n], 1, Len(mounts[n]) - 1)
            /\ Len(mounts'[n]) < Len(mounts[n]) => r.pc = "umount_m"]_vars

\* C26 witness: a stop has detached the four binds of an assembled sandbox
\* and is about to unmount merged/
C26_Witness ==
    \E p \in Procs :
        /\ proc[p].kind = "stop" /\ proc[p].pc = "umount_m"
        /\ "umount" \in proc[p].calls
        /\ proc[p].started.st = "active"
        /\ IsMounted(proc[p].cur)
        /\ BindsOf(TopLayer(proc[p].cur)) = {}

\* C27 (as stated): a run that has ended was replaced by the command or
\* returned an I/O error.
C27_ReplacedOrIoError ==
    \A p \in Procs :
        (proc[p].kind = "run" /\ proc[p].pc = "done") => proc[p].res \in {"exec", "Io"}

\* C27 (amended): entry takes the working directory before chroot, chroots
\* to <dir>/merged, then sets the working directory to the captured path,
\* now resolved inside the new root; exec is reached only through a
\* successful chroot followed by a successful chdir; run never returns
\* success, and a failure of chroot, chdir or exec is returned as an I/O
\* error (before the entry run can also fail with the error of the gate or
\* of the probe).
C27_EntryThenExec ==
    /\ [](\A p \in Procs :
            proc[p].kind = "run" =>
                /\ proc[p].res # "ok"
                /\ proc[p].pc = "chdir" =>
                      /\ proc[p].cwd = [path |-> <<"etc">>, root |-> <<>>]
                      /\ proc[p].root = <<proc[p].cur, Len(mounts[proc[p].cur])>>
                /\ proc[p].pc \in {"exec", "cmd"} =>
                      /\ "chroot" \in proc[p].calls
                      /\ proc[p].root[1] = proc[p].cur
                      /\ proc[p].cwd = [path |-> <<"etc">>, root |-> proc[p].root])
    /\ [][\A p \in Procs :
            LET r == proc[p]
                t == proc'[p]
            IN
            (r.kind = "run" /\ t # r) =>
                /\ t.pc = "chdir" => r.pc = "chroot"
                /\ t.pc = "exec" => r.pc = "chdir"
                /\ (t.pc = "cmd" /\ r.pc # "cmd") => r.pc = "exec"
                /\ (r.pc \in {"chroot", "chdir", "exec"} /\ t.pc = "done") =>
                      t.res = "Io"
                /\ (r.pc = "cmd" /\ t.pc = "done") => t.res = "exec"
                /\ r.pc \in {"chroot", "chdir", "exec"} => UNCHANGED fsvars]_vars

\* C27 witness: the run has become the command, rooted at merged/ of its
\* sandbox with the working directory it was invoked from
C27_Witness ==
    \E p \in Procs :
        /\ proc[p].kind = "run" /\ proc[p].pc = "cmd"
        /\ proc[p].cwd = [path |-> <<"etc">>, root |-> proc[p].root]
        /\ proc[p].root = <<proc[p].cur, 1>>

\* ------------------------------------------------ a stop retried after busy
\* A command is run in the assembled sandbox s1 while s1 is stopped; the
\* stop is repeated once the command has exited.
InitBusy ==
    /\ rootExists = TRUE
    /\ sdir = [n \in Names |-> n = "s1"]
    /\ sub = [n \in Names |-> IF n = "s1" THEN LayerSet ELSE {}]
    /\ mounts = [n \in Names |-> IF n = "s1" THEN <<Assembled>> ELSE <<>>]
    /\ diff = [n \in Names |-> {}]
    /\ host = [q \in Paths |-> IF q[1] = "etc" THEN "orig" ELSE "none"]
    /\ proc = [p \in Procs |-> Idle]
    /\ nfail = 0

\* p2 makes the run; p1 makes the stop, and makes it again when no other
\* invocation or command is left
StepBusy(p) ==
    \/ p = "p2" /\ proc[p].pc = "idle" /\ run(p, "s1")
    \/ run_validate_permissions(p)
    \/ /\ p = "p1"
       /\ proc[p].pc = "done" => \A q \in Procs \ {p} : proc[q].pc = "done"
       /\ stop(p, <<"s1">>)
    \/ is_active_session_merged(p)
    \/ is_active_session_parent(p)
    \/ maybe_create_session(p)
    \/ start_session_mount(p)
    \/ start_session_bind(p)
    \/ start_session_change_mount(p)
    \/ enter_session_chroot(p)
    \/ enter_session_chdir(p)
    \/ run_command(p)
    \/ \E q \in Paths : command_write(p, q)
    \/ command_exit(p)
    \/ stop_session_unmount(p)
    \/ stop_session_unmount_merged(p)

NextBusy == \E p \in Procs : StepBusy(p)

SpecBusy == InitBusy /\ [][NextBusy]_vars

\* C28 (as stated): a stop made when the holder of the union mount is gone,
\* on a sandbox that a stop failing on the busy union mount left with the
\* overlay mounted and its binds detached, returns success and leaves the
\* sandbox inactive (no system call failing for an outside reason).
C28_RepeatedStopSucceeds ==
    \A p \in Procs :
        (/\ proc[p].kind = "stop" /\ proc[p].pc = "done"
         /\ ~proc[p].envfail
         /\ proc[p].started.st = "active"
         /\ proc[p].started.binds = {}
         /\ \A q \in Procs \ {p} : proc[q].pc = "done") =>
            /\ proc[p].res = "ok"
            /\ mounts[proc[p].cur] = <<>>

\* C29 (as stated): whenever a run is at the chroot into <dir>/merged, the
\* overlay is mounted at merged/ and proc, dev, run and tmp are all bound
\* under it, whatever runs and stops, failed ones included, came before.
C29_ChrootIntoAssembled ==
    \A p \in Procs :
        (proc[p].kind = "run" /\ proc[p].pc = "chroot") =>
            /\ IsMounted(proc[p].cur)
            /\ BindsOf(TopLayer(proc[p].cur)) = {"proc", "dev", "run", "tmp"}

\* the sandbox n as the file system holds it
SandboxState(n) ==
    [dir |-> sdir[n], dirs |-> sub[n], mounts |-> mounts[n], upper |-> diff[n]]

\* C30: stop and delete over several sandboxes take them one after the
\* other and end at the first failure: a step works on the current sandbox
\* only; the loop goes on to the next sandbox, or returns success, only
\* when the current one is fully processed (not mounted after a stop, gone
\* after a delete); the step that fails ends the operation with its error
\* and leaves every sandbox still to come as it was.
C30_BulkStopsAtFirstFailure ==
    [][\A p \in Procs :
        LET r == proc[p]
            t == proc'[p]
        IN
        (r.kind \in Teardown /\ r.cur \in Names
            /\ r.pc \notin {"idle", "done"}) =>
            /\ \A m \in Names \ {r.cur} : SandboxState(m)' = SandboxState(m)
            /\ \/ t = r
               \/ /\ t.cur = r.cur /\ t.todo = r.todo
                  /\ t.pc \notin {"idle", "done"}
               \/ /\ t.pc = "probe_m" /\ r.todo # <<>>
                  /\ t.cur = Head(r.todo) /\ t.todo = Tail(r.todo)
                  /\ IF r.kind = "stop" THEN mounts'[r.cur] = <<>>
                     ELSE ~sdir'[r.cur]
               \/ /\ t.pc = "done" /\ t.res = "ok" /\ r.todo = <<>>
                  /\ IF r.kind = "stop" THEN mounts'[r.cur] = <<>>
                     ELSE ~sdir'[r.cur]
               \/ /\ t.pc = "done" /\ t.res \notin {"ok", "none"}
                  /\ \A m \in Range(r.todo) : SandboxState(m)' = SandboxState(m)]_vars

\* C30 witness: a delete of all sandboxes has ended with an error at the
\* second of two sandboxes, the first one gone and the second still there
C30_Witness ==
    \E p \in Procs :
        /\ proc[p].kind = "delete" /\ proc[p].all /\ proc[p].pc = "done"
        /\ proc[p].res = "Io"
        /\ Cardinality(proc[p].names) = 2
        /\ \E n \in proc[p].names : ~sdir[n]
        /\ \E m \in proc[p].names : sdir[m] /\ m = proc[p].cur

\* ------------------------------------------------- the change log on disk
\* the longest sequence of calls on one FileChanges
MaxCalls == 3

\* the bytes of a path or of the log, one token each; LF and CR are the
\* line feed and the carriage return
LF == "LF"

CR == "CR"

\* the working directory that absolutize resolves a relative path against
LogCwd == <<"/", "w">>

\* the paths the tracer hands over: absolute, relative, with a line feed in
\* a file name, with a carriage return at its end
LogFiles ==
    {<<"/", "a">>, <<"b">>, <<"/", "a", LF, "b">>, <<"/", "a", CR>>}

\* divergence.rs:181  file.absolutize() of a path without . and .. parts
absolutize(file) ==
    IF file # <<>> /\ file[1] = "/" THEN file ELSE LogCwd \o <<"/">> \o file

\* divergence.rs:79,182  self.changes.insert(path, change)
insert(changes, path, change) ==
    {e \in changes : e.path # path} \cup {[path |-> path, change |-> change]}

\* divergence.rs:185-194  the bytes of one entry: "M " or "R ", the path, \n
encode(file, change) ==
    <<IF change = "Modify" THEN "M" ELSE "R", " ">> \o absolutize(file) \o <<LF>>

\* BufRead::lines (divergence.rs:64): the text up to each line feed, without
\* it and without a carriage return before it; what follows the last line
\* feed is a line if it is not empty
RECURSIVE lines(_, _)
lines(bytes, cur) ==
    IF bytes = <<>>
    THEN IF cur = <<>> THEN <<>> ELSE <<cur>>
    ELSE IF Head(bytes) = LF
    THEN <<IF cur # <<>> /\ cur[Len(cur)] = CR
           THEN SubSeq(cur, 1, Len(cur) - 1) ELSE cur>>
         \o lines(Tail(bytes), <<>>)
    ELSE lines(Tail(bytes), Append(cur, Head(bytes)))

\* divergence.rs:64-95  the loop of restore_from_disk over the lines
RECURSIVE restore_lines(_, _)
restore_lines(ls, changes) ==
    IF ls = <<>> THEN [res |-> "ok", changes |-> changes]
    ELSE LET line == Head(ls) IN
         IF line = <<>> THEN restore_lines(Tail(ls), changes)
         ELSE IF Len(line) < 2
         THEN [res |-> "invalid entry", changes |-> changes]
         ELSE IF line[1] = "M"
         THEN restore_lines(Tail(ls),
                            insert(changes, SubSeq(line, 3, Len(line)), "Modify"))
         ELSE IF line[1] = "R"
         THEN restore_lines(Tail(ls),
                            insert(changes, SubSeq(line, 3, Len(line)), "Remove"))
         ELSE [res |-> "unknown op type", changes |-> changes]

\* divergence.rs:17-23  FileChanges::new; no log file yet
InitLog ==
    /\ rootExists = FALSE
    /\ sdir = [n \in Names |-> FALSE]
    /\ sub = [n \in Names |-> {}]
    /\ mounts = [n \in Names |-> <<>>]
    /\ diff = [n \in Names |-> {}]
    /\ host = [q \in Paths |-> IF q[1] = "etc" THEN "orig" ELSE "none"]
    /\ proc = [p \in Procs |->
                [changes |-> {}, log_exists |-> FALSE, log_file |-> <<>>,
                 calls |-> 0, res |-> "ok", restored |-> <<>>]]
    /\ nfail = 0

\* divergence.rs:106-142, 180-207  on_file_changed: create_dir_all, then
\* log_modification (the insert, then the append to the log), then the copy
on_file_changed(p, file, change) ==
    LET r == proc[p]
        r1 == [r EXCEPT !.calls = @ + 1, !.restored = <<>>]
        r2 == [r1 EXCEPT !.changes = insert(@, absolutize(file), change)]
    IN
    /\ r.calls < MaxCalls
    /\ \/ /\ Become(p, [r2 EXCEPT !.log_exists = TRUE,
                                  !.log_file = @ \o encode(file, change),
                                  !.res = "ok"])
          /\ UNCHANGED nfail
       \/ /\ nfail < MaxFail
          /\ nfail' = nfail + 1
          /\ \/ Become(p, [r1 EXCEPT !.res = "IOERR"])
             \/ Become(p, [r2 EXCEPT !.res = "IOERR"])
    /\ UNCHANGED fsvars

\* divergence.rs:98-100
on_file_modified(p, file) == on_file_changed(p, file, "Modify")

\* divergence.rs:102-104
on_file_removed(p, file) == on_file_changed(p, file, "Remove")

\* divergence.rs:51-96  restore_from_disk of a fresh FileChanges that has
\* the same log file
restore_from_disk(p) ==
    LET r == proc[p] IN
    /\ r.restored = <<>>
    /\ \/ /\ ~r.log_exists
          /\ Become(p, [r EXCEPT !.restored = <<[res |-> "ok", changes |-> {}]>>])
          /\ UNCHANGED nfail
       \/ /\ r.log_exists
          /\ Become(p, [r EXCEPT !.restored =
                            <<restore_lines(lines(r.log_file, <<>>), {})>>])
          /\ UNCHANGED nfail
       \/ /\ r.log_exists
          /\ nfail < MaxFail
          /\ nfail' = nfail + 1
          /\ Become(p, [r EXCEPT !.restored = <<[res |-> "IOERR", changes |-> {}]>>])
    /\ UNCHANGED fsvars

NextLog ==
    \/ \E file \in LogFiles : on_file_modified("p1", file)
    \/ \E file \in LogFiles : on_file_removed("p1", file)
    \/ restore_from_disk("p1")

SpecLog == InitLog /\ [][NextLog]_vars

\* C31 (as stated): after any sequence of on_file_modified and
\* on_file_removed calls, restore_from_disk on a fresh FileChanges with the
\* same log file succeeds and yields the same paths with the same change
\* type per path as the in-memory change set (no call failing for an outside
\* reason).
C31_LogRoundTrips ==
    \A p \in Procs :
        (proc[p].restored # <<>> /\ nfail = 0) =>
            /\ proc[p].restored[1].res = "ok"
            /\ proc[p].restored[1].changes = proc[p].changes

\* ------------------------------------------------------ the tracer's loop
\* the most system calls the traced program makes
MaxSyscalls == 2

\* interceptor.rs:93-101  the system calls the loop has a handler for
HandledSyscalls == {"openat", "newfstatat", "faccessat2", "unlinkat"}

\* what a handler finds at a stop: the number in orig_rax and, for the path
\* read from the registers, changes.includes, the mutating open flags,
\* is_direct_child_of_included_parent and the closure is_regular_file
\* (interceptor.rs:119-131)
Syscall(nr, inc, mod, par, reg) ==
    [nr |-> nr, existing_change |-> inc, can_modify |-> mod,
     has_changed_parent |-> par, is_regular_file |-> reg]

\* the system calls the traced program can make
SyscallInputs ==
    {Syscall("openat", inc, mod, par, reg) : inc, mod, par, reg \in BOOLEAN}
    \cup {Syscall(nr, inc, FALSE, FALSE, FALSE) :
            nr \in {"newfstatat", "faccessat2", "unlinkat"}, inc \in BOOLEAN}
    \cup {Syscall("other", FALSE, FALSE, FALSE, FALSE)}

\* interceptor.rs:50-58  the execvp of the traced program, whose number is
\* in orig_rax at the stop that follows it
Execve == Syscall("execve", FALSE, FALSE, FALSE, FALSE)

\* interceptor.rs:133-145  handle_enter_open: exit_op after the handler
handle_enter_open(sc) ==
    IF (sc.existing_change \/ sc.can_modify \/ sc.has_changed_parent)
        /\ sc.is_regular_file
    THEN "Ignore"
    ELSE "None"

\* interceptor.rs:92-105  the match on orig_rax: exit_op after the arm
handle_enter(sc) ==
    IF sc.nr = "openat" THEN handle_enter_open(sc)
    ELSE "Ignore"

\* interceptor.rs:38-47, 76  after the fork: the child is on its way to
\* traceme and execvp, the parent enters the loop with exit_op = None
InitTrace ==
    /\ rootExists = FALSE
    /\ sdir = [n \in Names |-> FALSE]
    /\ sub = [n \in Names |-> {}]
    /\ mounts = [n \in Names |-> <<>>]
    /\ diff = [n \in Names |-> {}]
    /\ host = [q \in Paths |-> IF q[1] = "etc" THEN "orig" ELSE "none"]
    /\ proc = [p \in Procs |->
                [pc |-> IF p = "p1" THEN "loop" ELSE "done", res |-> "none",
                 exit_op |-> "None",
                 child |-> IF p = "p1" THEN "running" ELSE "exited",
                 stop |-> "none", sc |-> Execve, n |-> 0, insp |-> <<>>]]
    /\ nfail = 0

\* the traced program runs until its next stop: the SIGTRAP after execvp
\* (interceptor.rs:51-58), the exit stop of the system call it entered, the
\* entry stop of its next system call, or its exit
tracee_runs(p) ==
    LET r == proc[p] IN
    /\ r.child = "running"
    /\ \/ /\ r.stop = "none"
          /\ Become(p, [r EXCEPT !.child = "stopped", !.stop = "exec"])
       \/ /\ r.stop = "entry"
          /\ Become(p, [r EXCEPT !.child = "stopped", !.stop = "exit"])
       \/ /\ r.stop \in {"exec", "exit"}
          /\ r.n < MaxSyscalls
          /\ \E sc \in SyscallInputs :
                Become(p, [r EXCEPT !.child = "stopped", !.stop = "entry",
                                    !.sc = sc, !.n = @ + 1, !.insp = <<>>])
       \/ /\ r.stop # "entry"
          /\ Become(p, [r EXCEPT !.child = "exited"])
    /\ UNCHANGED <<fsvars, nfail>>

\* interceptor.rs:79, 86-109  one turn of the loop at a stop of the child:
\* with exit_op set the stop is passed over and exit_op cleared, without it
\* the registers are read and the handler of orig_rax is run; then the child
\* is resumed up to its next stop.  A handler that returns an error ends the
\* loop through `?`.
intercept_syscalls(p) ==
    LET r == proc[p] IN
    /\ r.pc = "loop"
    /\ r.child = "stopped"
    /\ \/ /\ r.exit_op # "None"
          /\ Become(p, [r EXCEPT !.exit_op = "None", !.child = "running"])
          /\ UNCHANGED nfail
       \/ /\ r.exit_op = "None"
          /\ Become(p, [r EXCEPT !.exit_op = handle_enter(r.sc),
                                 !.insp = Append(@, r.stop),
                                 !.child = "running"])
          /\ UNCHANGED nfail
       \/ /\ r.exit_op = "None"
          /\ r.sc.nr \in HandledSyscalls
          /\ nfail < MaxFail
          /\ nfail' = nfail + 1
          /\ Become(p, [r EXCEPT !.pc = "done", !.res = "IOERR",
                                 !.insp = Append(@, r.stop)])
    /\ UNCHANGED fsvars

\* interceptor.rs:79-84, 204-212  wait_for_exit: the child has exited
intercept_syscalls_exited(p) ==
    LET r == proc[p] IN
    /\ r.pc = "loop"
    /\ r.child = "exited"
    /\ \E res \in {"ok", "code"} : Become(p, [r EXCEPT !.pc = "done", !.res = res])
    /\ UNCHANGED <<fsvars, nfail>>

NextTrace ==
    \/ tracee_runs("p1")
    \/ intercept_syscalls("p1")
    \/ intercept_syscalls_exited("p1")

SpecTrace == InitTrace /\ [][NextTrace]_vars

\* the loop has taken its turn at the entry stop of the current system call
EntryPassed(p) ==
    \/ proc[p].stop = "entry" /\ (proc[p].child = "running" \/ proc[p].pc = "done")
    \/ proc[p].stop = "exit"

\* C32 (as stated): every handled system call (openat, newfstatat,
\* faccessat2, unlinkat) is inspected exactly once, at its entry stop, and
\* its exit stop is never taken for an entry, whether or not the path was
\* rewritten.
C32_InspectedOnceAtEntry ==
    \A p \in Procs :
        (proc[p].n > 0 /\ proc[p].sc.nr \in HandledSyscalls) =>
            /\ proc[p].insp \in {<<>>, <<"entry">>}
            /\ EntryPassed(p) => proc[p].insp = <<"entry">>

====
